---- MODULE Spec2Model ----
(***************************************************************************)
(* Model of src/index.js: the express handler GET /gen/:type/ that hashes  *)
(* the files of a pass model directory, writes manifest.json to a scratch  *)
(* directory, has openssl sign it and zips files + manifest + signature.   *)
(*                                                                         *)
(* One action is one turn of the node event loop: a callback together with *)
(* every synchronous call and every promise reaction (microtask) it        *)
(* triggers.  File system, child process and stream events are the turns.  *)
(***************************************************************************)
EXTENDS Integers, Sequences, FiniteSets, TLC

\* ------------------------------------------------------------------ bounds
\* largest number of bytes one "data" event of a read stream delivers
MaxChunk == 2

\* largest number of entries of a model directory
MaxEntries == 3

\* ------------------------------------------------------- names and values
Requests == {"r1", "r2"}

\* req.params.type values: two pass types of the pattern and one that is not
Types == {"boarding", "coupon", "teapot"}

\* line 13: /(boarding|event|coupon|generic|store)/i
supportedTypesOfPass == {"boarding", "event", "coupon", "generic", "store"}

\* entries a model directory may hold, in the order readdir reports them
AllFiles == <<".DS_Store", "icon.png", "manifest", "manifest.json",
              "pass.json", "signature">>

FileNames == {AllFiles[i] : i \in 1..Len(AllFiles)}

\* e.charAt(0) of each name
charAt0 == [f \in FileNames |->
              CASE f = ".DS_Store"     -> "."
                [] f = "icon.png"      -> "i"
                [] f = "manifest"      -> "m"
                [] f = "manifest.json" -> "m"
                [] f = "pass.json"     -> "p"
                [] f = "signature"     -> "s"]

None == "none"

\* a path that does not exist, and a file holding the given content
ENOENT == [exists |-> FALSE, content |-> <<>>]
File(content) == [exists |-> TRUE, content |-> content]

\* a directory that does not exist, and one holding the given entries
NoDir == [exists |-> FALSE, entries |-> {}]
Dir(entries) == [exists |-> TRUE, entries |-> entries]

\* no response sent
NoResponse == [status |-> 0, message |-> None]

\* bytes of the files of a model directory
DiskImages ==
  { [f \in FileNames |->
        CASE f = "pass.json" -> <<1, 2, 3>>
          [] f = "icon.png"  -> <<2, 1>>
          [] f = "manifest"  -> <<3>>
          [] OTHER           -> <<4>>],
    [f \in FileNames |->
        CASE f = "pass.json" -> <<2, 1>>
          [] f = "icon.png"  -> <<>>
          [] f = "manifest"  -> <<2, 1>>
          [] OTHER           -> <<4>>] }

\* the two files fs.access probes in Certificates.dir
CertFiles == {"certificate", "key"}

\* names fs.mkdtemp can generate (prefix "passkitWebServer-" + random tail)
TempNames == {"passkitWebServer-a", "passkitWebServer-b"}

\* what the openssl process of lines 67-81 can do: print the signature, print
\* it with a diagnostic on stderr, or print a diagnostic alone
SignerModes == {"signed", "warned", "failed"}

\* the directory line 220/221 tests and creates
OutputLiteral == "output"

\* ----------------------------------------------------------- pure helpers
\* readdir result of a directory holding the set s of entries
Listing(s) == SelectSeq(AllFiles, LAMBDA f : f \in s)

Range(q) == {q[i] : i \in 1..Len(q)}

\* lines 25-29
removeDotFiles(from) == SelectSeq(from, LAMBDA e : charAt0[e] # ".")

\* the skip test with its first comparison left out
isSkipped_onlySignature(file) == file = "signature"

\* line 184: the names getHashAndArchive skips
isSkipped(file) == ~(file # "manifest.json" /\ file # "signature")

\* crypto.createHash("sha1"): a rolling hash of 8 bits stands for SHA-1
HashWidth == 256

Sha1Init == 7

RECURSIVE Sha1Update(_, _)
Sha1Update(h, data) ==
  IF data = <<>> THEN h
  ELSE Sha1Update((h * 31 + Head(data) + 1) % HashWidth, Tail(data))

HexDigits == <<"0", "1", "2", "3", "4", "5", "6", "7",
               "8", "9", "a", "b", "c", "d", "e", "f">>

\* hashFlow.digest("hex").trim()
digestHex(h) == <<HexDigits[(h \div 16) + 1], HexDigits[(h % 16) + 1]>>

\* reference: SHA-1 (lowercase hex) of a whole byte sequence
Sha1Hex(bytes) == digestHex(Sha1Update(Sha1Init, bytes))

\* the data handler with the hash created inside it
onData_lastChunkOnly(h, data) == Sha1Update(Sha1Init, data)

\* lines 191-193: hashFlow.update(data)
onData(h, data) == Sha1Update(h, data)

\* JSON.stringify of an object whose keys were inserted in the order of obj
RECURSIVE stringifyMembers(_)
stringifyMembers(obj) ==
  IF obj = <<>> THEN <<>>
  ELSE <<"\"", obj[1].key, "\"", ":", "\"">> \o obj[1].value \o <<"\"">>
       \o (IF Len(obj) > 1 THEN <<",">> ELSE <<>>)
       \o stringifyMembers(Tail(obj))

JSONstringify(obj) == <<"{">> \o stringifyMembers(obj) \o <<"}">>

\* the assignment replacing the whole object: manifestRaw = { [file]: value }
setMember_replace(obj, k, v) == <<[key |-> k, value |-> v]>>

\* manifestRaw[file] = value on an object kept as its ordered member list
setMember(obj, k, v) ==
  IF \E i \in 1..Len(obj) : obj[i].key = k
  THEN [i \in 1..Len(obj) |->
          IF obj[i].key = k THEN [key |-> k, value |-> v] ELSE obj[i]]
  ELSE Append(obj, [key |-> k, value |-> v])

\* Buffer.concat(list)
RECURSIVE BufferConcat(_)
BufferConcat(list) ==
  IF list = <<>> THEN <<>> ELSE Head(list) \o BufferConcat(Tail(list))

\* the pass.json test left out
includesPassJson_always(list) == TRUE

\* line 160: list.includes("pass.json")
includesPassJson(list) == "pass.json" \in Range(list)

\* the two probes combined so that the first success settles (Promise.race)
checkSignatureRequirements_any(acc) ==
  IF \E c \in CertFiles : acc[c] = "ok" THEN "fulfilled"
  ELSE IF \E c \in CertFiles : acc[c] = "err" THEN "rejected"
  ELSE "pending"

\* lines 42-52: the state of Promise.all([checkCertificate, checkKey]) given
\* the state of the two fs.access probes
checkSignatureRequirements(acc) ==
  IF \E c \in CertFiles : acc[c] = "err" THEN "rejected"
  ELSE IF \A c \in CertFiles : acc[c] = "ok" THEN "fulfilled"
  ELSE "pending"

\* lines 106-124: the promise generateManifest returns; the write stream it
\* opens is the caller's manifestWS
generateManifest(fromObject, tempFolderPath) ==
  IF fromObject.falsy \/ (fromObject.typeof # "object" /\ fromObject.typeof # "string")
  THEN [ok |-> FALSE, source |-> <<>>, error |-> "Argument 0 is required"]
  ELSE IF tempFolderPath.falsy \/ tempFolderPath.typeof # "string"
  THEN [ok |-> FALSE, source |-> <<>>, error |-> "Argument 1 is required"]
  ELSE [ok |-> TRUE, source |-> JSONstringify(fromObject.value), error |-> None]

\* a javascript object with the given members, and a javascript string
Object(members) == [typeof |-> "object", falsy |-> FALSE, value |-> members]
String(str) == [typeof |-> "string", falsy |-> str = "", value |-> str]

\* the final callback without its error test
endThrows_never(error) == FALSE

\* lines 208-210: if (error) throw new Error(...)
endThrows(error) == error # None

\* a per-item callback that does not count: the first success ends the loop
iteratorCallback_first(err, completed, length) ==
  IF err # None THEN "error" ELSE "done"

\* async.each's per-item callback: what it tells the final callback
iteratorCallback(err, completed, length) ==
  IF err # None THEN "error"
  ELSE IF completed + 1 = length THEN "done"
  ELSE "wait"

\* a scratch directory of a fixed name instead of a generated one
mkdtemp_fixed(existing) == "passkitWebServer-a"

\* fs.mkdtemp: a name no existing directory has
mkdtemp(existing) == CHOOSE n \in TempNames : n \notin existing

\* the reaction taking both settlements: .then(f, f)
thenRuns_always(settled) == TRUE

\* lines 217-218: generateManifestSignature(tempFolder).then(...): whether the
\* reaction of line 218 runs for a settlement of the promise
thenRuns(settled) == settled = "resolved"

\* the download sent as soon as the output file is open
downloadOn_open == "open"

\* line 230: the event of outputWS whose listener sends the download
downloadOn == "close"

\* what "openssl smime -sign -outform DER" prints for the input it read
Pkcs7(input) == <<[pkcs7 |-> "DER", over |-> input]>>

\* the block archiver writes last: the zip central directory
CentralDirectory == "<central directory>"

\* ------------------------------------------------------------------ state
VARIABLES
  proc,            \* the node process: "up" or "down"
  models,          \* passModelsDir: per type, whether <type>.pass exists and its entries
  disk,            \* bytes of each file of the model directory
  outputDir,       \* _configuration.output.dir
  signerModes,     \* what openssl can do with Certificates once it has read its input
  fsDirs,          \* directories that exist among the output locations
  tmpDirs,         \* scratch directories that exist in os.tmpdir()
  manifestJson,    \* <scratch>/manifest.json of each scratch directory
  outFile,         \* <outputDir>/<type>.pkpass of each type
  spawns,          \* scratch directories an openssl process was started for
  pc,              \* where each request is
  type,            \* req.params.type
  res,             \* the response sent
  error,           \* what the request threw or was rejected with, uncaught
  list,            \* line 151
  tempFolder,      \* line 174
  passFileStream,  \* per file: None, "open", "ended", "error"
  hashFlow,        \* per file: state of the hash
  delivered,       \* per file: the bytes its data events carried so far
  manifestRaw,     \* line 180, members in insertion order
  completed,       \* async.each: items that called back without error
  manifestBuffer,  \* what generateManifest resolved with
  manifestWS,      \* line 117: None, "opening", "open", "finished"; what it buffers
  access,          \* per probed file: None, "pending", "ok", "err"
  openssl,         \* the child process of line 70
  opensslBuffer,   \* line 68
  opensslError,    \* line 67
  signature,       \* the settlement of generateManifestSignature's promise
  archive,         \* line 181
  outputWS,        \* line 225: None, "opening", "open", "closed"
  flushed          \* blocks of the archive written to the output file

envVars  == <<models, disk, outputDir, signerModes>>
fsVars   == <<fsDirs, tmpDirs, manifestJson, outFile, spawns>>
reqVars  == <<type, res, error, list, tempFolder>>
hashVars == <<passFileStream, hashFlow, delivered, manifestRaw, completed>>
manVars  == <<manifestBuffer, manifestWS>>
sigVars  == <<access, openssl, opensslBuffer, opensslError, signature>>
zipVars  == <<archive, outputWS, flushed>>

vars == <<proc, pc, envVars, fsVars, reqVars, hashVars, manVars, sigVars, zipVars>>

NoProcess == [state |-> None, input |-> ENOENT, out |-> <<>>, err |-> <<>>]
NoArchive == [queue |-> <<>>, out |-> <<>>, finalized |-> FALSE]

\* the requests a behaviour serves
Clients == {"r1"}

\* what the heap of a freshly started process holds for the requests
FreshMemory ==
  /\ passFileStream = [r \in Requests |-> [f \in FileNames |-> None]]
  /\ hashFlow = [r \in Requests |-> [f \in FileNames |-> Sha1Init]]
  /\ delivered = [r \in Requests |-> [f \in FileNames |-> <<>>]]
  /\ manifestRaw = [r \in Requests |-> <<>>]
  /\ completed = [r \in Requests |-> 0]
  /\ manifestBuffer = [r \in Requests |-> <<>>]
  /\ manifestWS = [r \in Requests |-> [state |-> None, buffered |-> <<>>]]
  /\ access = [r \in Requests |-> [c \in CertFiles |-> None]]
  /\ openssl = [r \in Requests |-> NoProcess]
  /\ opensslBuffer = [r \in Requests |-> <<>>]
  /\ opensslError = [r \in Requests |-> FALSE]
  /\ signature = [r \in Requests |-> [state |-> None, value |-> <<>>]]
  /\ archive = [r \in Requests |-> NoArchive]
  /\ outputWS = [r \in Requests |-> None]
  /\ flushed = [r \in Requests |-> 0]

\* the same heap as the next state: what an exit leaves
LostMemory ==
  /\ passFileStream' = [r \in Requests |-> [f \in FileNames |-> None]]
  /\ hashFlow' = [r \in Requests |-> [f \in FileNames |-> Sha1Init]]
  /\ delivered' = [r \in Requests |-> [f \in FileNames |-> <<>>]]
  /\ manifestRaw' = [r \in Requests |-> <<>>]
  /\ completed' = [r \in Requests |-> 0]
  /\ manifestBuffer' = [r \in Requests |-> <<>>]
  /\ manifestWS' = [r \in Requests |-> [state |-> None, buffered |-> <<>>]]
  /\ access' = [r \in Requests |-> [c \in CertFiles |-> None]]
  /\ openssl' = [r \in Requests |-> NoProcess]
  /\ opensslBuffer' = [r \in Requests |-> <<>>]
  /\ opensslError' = [r \in Requests |-> FALSE]
  /\ signature' = [r \in Requests |-> [state |-> None, value |-> <<>>]]
  /\ archive' = [r \in Requests |-> NoArchive]
  /\ outputWS' = [r \in Requests |-> None]
  /\ flushed' = [r \in Requests |-> 0]

InitRequests ==
  /\ proc = "up"
  /\ pc = [r \in Requests |-> IF r \in Clients THEN "new" ELSE "off"]
  /\ type \in [Requests -> Types]
  /\ \A r \in Requests \ Clients : type[r] = "boarding"
  /\ res = [r \in Requests |-> NoResponse]
  /\ error = [r \in Requests |-> None]
  /\ list = [r \in Requests |-> <<>>]
  /\ tempFolder = [r \in Requests |-> ""]
  /\ FreshMemory

InitFiles ==
  /\ fsDirs \in SUBSET {outputDir}
  /\ tmpDirs = {}
  /\ manifestJson = [n \in TempNames |-> ENOENT]
  /\ outFile = [t \in Types |-> ENOENT]
  /\ spawns = {}

Init ==
  /\ \E m \in {NoDir} \cup {Dir(s) : s \in {e \in SUBSET FileNames : Cardinality(e) <= MaxEntries}} :
        models = [t \in Types |-> IF t = "boarding" THEN m ELSE NoDir]
  /\ disk \in DiskImages
  /\ outputDir \in {OutputLiteral, "passes"}
  /\ signerModes = SignerModes
  /\ InitFiles
  /\ InitRequests

\* ---------------------------------------------------- ends of a request
InFlight == {"readdir", "mkdtemp", "hashing", "requirements", "signing", "archiving"}

\* the process exits while serving r: its heap is gone, the requests it was
\* serving get no answer; files, child processes and sent responses remain
exit(r, how, reason) ==
  /\ proc' = "down"
  /\ pc' = [q \in Requests |->
              IF q = r THEN how ELSE IF pc[q] \in InFlight THEN "killed" ELSE pc[q]]
  /\ error' = [error EXCEPT ![r] = reason]
  /\ LostMemory

\* an exception no handler catches: node prints it and exits
uncaughtException(r, reason) == exit(r, "thrown", reason)

\* a rejected promise no handler takes, when node exits on it (it does so or
\* only warns and goes on, depending on its version)
unhandledRejectionExit(r, reason) == exit(r, "rejected", reason)

\* the same when node only warns
unhandledRejectionWarn(r, reason) ==
  /\ pc' = [pc EXCEPT ![r] = "rejected"]
  /\ error' = [error EXCEPT ![r] = reason]
  /\ UNCHANGED proc

\* lines 137/138, 155/156, 162/163: res.status(418).send({...})
send418(r, message) ==
  /\ res' = [res EXCEPT ![r] = [status |-> 418, message |-> message]]
  /\ pc' = [pc EXCEPT ![r] = "done"]

\* ------------------------------------------------------------- the handler
\* lines 134-142: the route handler up to the call of fs.readdir
Get(r) ==
  /\ proc = "up"
  /\ pc[r] = "new"
  /\ IF type[r] \notin supportedTypesOfPass
     THEN send418(r, "Model unsupported")
     ELSE pc' = [pc EXCEPT ![r] = "readdir"] /\ UNCHANGED res
  /\ UNCHANGED <<proc, envVars, fsVars, type, error, list, tempFolder,
                 hashVars, manVars, sigVars, zipVars>>

\* lines 142-174: the callback of fs.readdir up to the call of fs.mkdtemp
ReaddirCallback(r) ==
  /\ proc = "up"
  /\ pc[r] = "readdir"
  /\ LET err   == ~models[type[r]].exists
         files == Listing(models[type[r]].entries)
         l     == removeDotFiles(files)
     IN  IF err
         \* line 147 reads res.params.type; a response has no params, so the
         \* template throws TypeError before send() is called
         THEN /\ uncaughtException(r, "TypeError: Cannot read property 'type' of undefined")
              /\ UNCHANGED <<res, list>>
         ELSE /\ IF Len(l) = 0
                 THEN send418(r, "Model has no contents") /\ UNCHANGED list
                 ELSE IF ~includesPassJson(l)
                 THEN send418(r, "I'm a tea pot") /\ UNCHANGED list
                 ELSE /\ list' = [list EXCEPT ![r] = l]
                      /\ pc' = [pc EXCEPT ![r] = "mkdtemp"]
                      /\ UNCHANGED res
              /\ UNCHANGED <<proc, error, hashVars, manVars, sigVars, zipVars>>
  /\ UNCHANGED <<envVars, fsVars, type, tempFolder>>

\* lines 207-217: async.each's final callback, then generateManifest and the
\* reaction to its promise, up to the two fs.access calls of line 44 and 48;
\* raw is manifestRaw, folder tempFolder and arch the archive at the call.
\* It sets proc, pc, error, manVars, access and archive; the caller sets or
\* keeps the rest of the heap in the branches that do not exit.
end(r, err, raw, folder, arch, callerKeeps) ==
  IF endThrows(err)
  THEN uncaughtException(r, "Unable to compile manifest.")
  ELSE LET m == generateManifest(Object(raw), String(folder))
       IN  IF ~m.ok
           \* lines 244-246 rethrow inside the last catch of the chain
           THEN \/ unhandledRejectionExit(r, m.error)
                \/ /\ unhandledRejectionWarn(r, m.error)
                   /\ archive' = [archive EXCEPT ![r] = arch]
                   /\ UNCHANGED <<manVars, access>>
                   /\ callerKeeps
           ELSE /\ manifestWS' = [manifestWS EXCEPT ![r] =
                     [state |-> "opening", buffered |-> m.source]]
                /\ manifestBuffer' = [manifestBuffer EXCEPT ![r] = m.source]
                /\ archive' = [archive EXCEPT ![r] =
                     [arch EXCEPT !.queue = Append(@,
                        [name |-> "manifest.json", from |-> "buffer", data |-> m.source])]]
                /\ access' = [access EXCEPT ![r] = [c \in CertFiles |-> "pending"]]
                /\ pc' = [pc EXCEPT ![r] = "requirements"]
                /\ UNCHANGED <<proc, error>>
                /\ callerKeeps

\* lines 174-206: the callback of fs.mkdtemp: async.each calls
\* getHashAndArchive for every name of list before any stream event
MkdtempCallback(r) ==
  /\ proc = "up"
  /\ pc[r] = "mkdtemp"
  /\ \E err \in BOOLEAN :
       IF err
       THEN /\ uncaughtException(r, "mkdtemp")
            /\ UNCHANGED <<tmpDirs, tempFolder>>
       ELSE LET folder == mkdtemp(tmpDirs)
                staged == SelectSeq(list[r], LAMBDA f : ~isSkipped(f))
                arch   == [NoArchive EXCEPT !.queue =
                            [i \in 1..Len(staged) |->
                               [name |-> staged[i], from |-> "file", data |-> <<>>]]]
                count  == Len(list[r]) - Len(staged)
                keeps  ==
                  /\ passFileStream' = [passFileStream EXCEPT ![r] =
                       [f \in FileNames |-> IF f \in Range(staged) THEN "open" ELSE None]]
                  /\ completed' = [completed EXCEPT ![r] = count]
                  /\ UNCHANGED <<hashFlow, delivered, manifestRaw, openssl, opensslBuffer,
                                 opensslError, signature, outputWS, flushed>>
            IN  /\ tmpDirs' = tmpDirs \cup {folder}
                /\ tempFolder' = [tempFolder EXCEPT ![r] = folder]
                /\ IF count = Len(list[r])
                   THEN end(r, None, <<>>, folder, arch, keeps)
                   ELSE /\ archive' = [archive EXCEPT ![r] = arch]
                        /\ pc' = [pc EXCEPT ![r] = "hashing"]
                        /\ keeps
                        /\ UNCHANGED <<proc, error, manVars, access>>
  /\ UNCHANGED <<envVars, fsDirs, manifestJson, outFile, spawns, type, res, list>>

\* lines 191-193: a "data" event of the read stream of file
StreamData(r, file) ==
  /\ proc = "up"
  /\ passFileStream[r][file] = "open"
  /\ \E n \in 1..MaxChunk :
       LET off  == Len(delivered[r][file])
           data == SubSeq(disk[file], off + 1, off + n)
       IN  /\ off + n <= Len(disk[file])
           /\ hashFlow' = [hashFlow EXCEPT ![r][file] = onData(@, data)]
           /\ delivered' = [delivered EXCEPT ![r][file] = @ \o data]
  /\ UNCHANGED <<proc, pc, envVars, fsVars, reqVars, passFileStream, manifestRaw,
                 completed, manVars, sigVars, zipVars>>

\* lines 195-197: the "error" event of the read stream of file
StreamError(r, file) ==
  /\ proc = "up"
  /\ passFileStream[r][file] = "open"
  /\ LET keeps ==
           /\ passFileStream' = [passFileStream EXCEPT ![r][file] = "error"]
           /\ UNCHANGED <<hashFlow, delivered, manifestRaw, completed, openssl,
                          opensslBuffer, opensslError, signature, outputWS, flushed>>
     \* async.each calls its final callback once: pc tells whether it has
     IN  IF iteratorCallback("EIO", completed[r], Len(list[r])) = "error" /\ pc[r] = "hashing"
         THEN end(r, "EIO", manifestRaw[r], tempFolder[r], archive[r], keeps)
         ELSE keeps /\ UNCHANGED <<proc, pc, error, manVars, access, archive>>
  /\ UNCHANGED <<envVars, fsVars, type, res, list, tempFolder>>

\* lines 199-202: the "end" event of the read stream of file
StreamEnd(r, file) ==
  /\ proc = "up"
  /\ passFileStream[r][file] = "open"
  /\ Len(delivered[r][file]) >= Len(disk[file])
  /\ LET raw   == setMember(manifestRaw[r], file, digestHex(hashFlow[r][file]))
         keeps ==
           /\ passFileStream' = [passFileStream EXCEPT ![r][file] = "ended"]
           /\ manifestRaw' = [manifestRaw EXCEPT ![r] = raw]
           /\ completed' = [completed EXCEPT ![r] = @ + 1]
           /\ UNCHANGED <<hashFlow, delivered, openssl, opensslBuffer, opensslError,
                          signature, outputWS, flushed>>
     IN  IF iteratorCallback(None, completed[r], Len(list[r])) = "done" /\ pc[r] = "hashing"
         THEN end(r, None, raw, tempFolder[r], archive[r], keeps)
         ELSE keeps /\ UNCHANGED <<proc, pc, error, manVars, access, archive>>
  /\ UNCHANGED <<envVars, fsVars, type, res, list, tempFolder>>

\* lines 117-120: the write stream of <scratch>/manifest.json opens the file
ManifestOpen(r) ==
  /\ proc = "up"
  /\ manifestWS[r].state = "opening"
  /\ manifestWS' = [manifestWS EXCEPT ![r].state = "open"]
  /\ manifestJson' = [manifestJson EXCEPT ![tempFolder[r]] = File(<<>>)]
  /\ UNCHANGED <<proc, pc, envVars, fsDirs, tmpDirs, outFile, spawns, reqVars, hashVars,
                 manifestBuffer, sigVars, zipVars>>

\* lines 119-120: the buffered write(source) reaches the file, end() closes it
ManifestWrite(r) ==
  /\ proc = "up"
  /\ manifestWS[r].state = "open"
  /\ manifestWS' = [manifestWS EXCEPT ![r] = [state |-> "finished", buffered |-> <<>>]]
  /\ manifestJson' = [manifestJson EXCEPT ![tempFolder[r]] = File(manifestWS[r].buffered)]
  /\ UNCHANGED <<proc, pc, envVars, fsDirs, tmpDirs, outFile, spawns, reqVars, hashVars,
                 manifestBuffer, sigVars, zipVars>>

\* lines 44, 48 and 65-102: the callback of one fs.access (the file is there
\* or is not), the reaction of Promise.all to it and, when that settles, the
\* spawn of openssl or the catch of line 100
AccessCallback(r, c) ==
  /\ proc = "up"
  /\ access[r][c] = "pending"
  /\ \E e \in BOOLEAN :
       LET acc    == [access[r] EXCEPT ![c] = IF e THEN "err" ELSE "ok"]
           before == checkSignatureRequirements(access[r])
           after  == checkSignatureRequirements(acc)
           reason == <<"Cannot fulfill signature requirements.">>
       IN  IF before = "pending" /\ after = "fulfilled"
           THEN /\ access' = [access EXCEPT ![r] = acc]
                /\ openssl' = [openssl EXCEPT ![r] = [NoProcess EXCEPT !.state = "spawned"]]
                /\ spawns' = spawns \cup {tempFolder[r]}
                /\ pc' = [pc EXCEPT ![r] = "signing"]
                /\ UNCHANGED <<proc, error, signature, opensslBuffer, opensslError,
                               hashVars, manVars, zipVars>>
           ELSE IF before = "pending" /\ after = "rejected"
           \* line 101 rejects, lines 240-242 rethrow in the last catch
           THEN /\ UNCHANGED spawns
                /\ \/ unhandledRejectionExit(r, reason)
                   \/ /\ unhandledRejectionWarn(r, reason)
                      /\ access' = [access EXCEPT ![r] = acc]
                      /\ signature' = [signature EXCEPT ![r] =
                           [state |-> "rejected", value |-> reason]]
                      /\ UNCHANGED <<openssl, opensslBuffer, opensslError,
                                     hashVars, manVars, zipVars>>
           ELSE /\ access' = [access EXCEPT ![r] = acc]
                /\ UNCHANGED <<proc, pc, error, spawns, openssl, signature, opensslBuffer,
                               opensslError, hashVars, manVars, zipVars>>
  /\ UNCHANGED <<envVars, fsDirs, tmpDirs, manifestJson, outFile, type, res, list, tempFolder>>

\* the openssl process opens and reads the file given with -in (line 77) and
\* decides what it will print: a signature, a diagnostic, or both
SignerRead(r) ==
  /\ proc = "up"
  /\ openssl[r].state = "spawned"
  /\ LET in == manifestJson[tempFolder[r]]
     IN  \E mode \in (IF in.exists THEN signerModes ELSE {"failed"}) :
           /\ openssl' = [openssl EXCEPT ![r] =
                [state |-> "running",
                 input |-> in,
                 out   |-> IF mode = "failed" THEN <<>> ELSE <<Pkcs7(in.content)>>,
                 err   |-> IF mode = "signed" THEN <<>> ELSE <<<<"diagnostic">>>>]]
  /\ UNCHANGED <<proc, pc, envVars, fsVars, reqVars, hashVars, manVars,
                 access, opensslBuffer, opensslError, signature, zipVars>>

\* lines 83-85
StdoutData(r) ==
  /\ proc = "up"
  /\ openssl[r].state = "running"
  /\ openssl[r].out # <<>>
  /\ opensslBuffer' = [opensslBuffer EXCEPT ![r] = Append(@, Head(openssl[r].out))]
  /\ openssl' = [openssl EXCEPT ![r].out = Tail(@)]
  /\ UNCHANGED <<proc, pc, envVars, fsVars, reqVars, hashVars, manVars,
                 access, opensslError, signature, zipVars>>

\* lines 87-90
StderrData(r) ==
  /\ proc = "up"
  /\ openssl[r].state \in {"running", "ended"}
  /\ openssl[r].err # <<>>
  /\ opensslBuffer' = [opensslBuffer EXCEPT ![r] = Append(@, Head(openssl[r].err))]
  /\ opensslError' = [opensslError EXCEPT ![r] = TRUE]
  /\ openssl' = [openssl EXCEPT ![r].err = Tail(@)]
  /\ UNCHANGED <<proc, pc, envVars, fsVars, reqVars, hashVars, manVars,
                 access, signature, zipVars>>

\* lines 92-98 and 218-229: the "end" event of the signer's stdout settles the
\* promise; on success the reaction creates "output" if it is missing, appends
\* the signature, opens the output stream, pipes the archive into it and
\* finalizes; on failure lines 240-242 rethrow in the last catch
StdoutEnd(r) ==
  /\ proc = "up"
  /\ openssl[r].state = "running"
  /\ openssl[r].out = <<>>
  /\ LET buffer  == BufferConcat(opensslBuffer[r])
         settled == IF opensslError[r] THEN "rejected" ELSE "resolved"
     IN  IF ~thenRuns(settled)
         THEN /\ UNCHANGED fsDirs
              /\ \/ unhandledRejectionExit(r, buffer)
                 \/ /\ unhandledRejectionWarn(r, buffer)
                    /\ openssl' = [openssl EXCEPT ![r].state = "ended"]
                    /\ signature' = [signature EXCEPT ![r] =
                         [state |-> "rejected", value |-> buffer]]
                    /\ UNCHANGED <<access, opensslBuffer, opensslError,
                                   hashVars, manVars, zipVars>>
         ELSE /\ openssl' = [openssl EXCEPT ![r].state = "ended"]
              /\ signature' = [signature EXCEPT ![r] =
                   [state |-> settled, value |-> buffer]]
              /\ fsDirs' = fsDirs \cup {OutputLiteral}
              /\ archive' = [archive EXCEPT ![r] =
                   [@ EXCEPT !.queue = Append(@,
                      [name |-> "signature", from |-> "buffer", data |-> buffer]),
                             !.finalized = TRUE]]
              /\ outputWS' = [outputWS EXCEPT ![r] = "opening"]
              /\ pc' = [pc EXCEPT ![r] = "archiving"]
              /\ UNCHANGED <<proc, error, flushed, access, opensslBuffer, opensslError,
                             hashVars, manVars>>
  /\ UNCHANGED <<envVars, tmpDirs, manifestJson, outFile, spawns, type, res, list, tempFolder>>

\* the blocks archiver has to produce: one per queued entry and, once
\* finalize() was called, the central directory
Blocks(arch) == Len(arch.queue) + (IF arch.finalized THEN 1 ELSE 0)

\* archiver works through its queue from the first archive.file() on: it
\* reads a queued file from the disk (a read of its own, line 189) or takes a
\* queued buffer, and after finalize() and the last entry it emits the
\* central directory; a failed read is an "error" event nobody listens to
ArchiveProcess(r) ==
  /\ proc = "up"
  /\ Len(archive[r].out) < Blocks(archive[r])
  /\ LET k == Len(archive[r].out) + 1
         produce(block) ==
           /\ archive' = [archive EXCEPT ![r].out = Append(@, block)]
           /\ UNCHANGED <<proc, pc, error, hashVars, manVars, sigVars, outputWS, flushed>>
     IN  IF k > Len(archive[r].queue)
         THEN produce([name |-> CentralDirectory,
                       data |-> [i \in 1..Len(archive[r].out) |-> archive[r].out[i].name]])
         ELSE LET e == archive[r].queue[k]
              IN  IF e.from = "buffer"
                  THEN produce([name |-> e.name, data |-> e.data])
                  ELSE \E ok \in BOOLEAN :
                         IF ok
                         THEN produce([name |-> e.name, data |-> disk[e.name]])
                         ELSE uncaughtException(r, "archiver: EIO")
  /\ UNCHANGED <<envVars, fsVars, type, res, list, tempFolder>>

\* lines 230-238: the listener of outputWS that sends the download, at event
download(r, event) ==
  IF event = downloadOn
  THEN /\ res' = [res EXCEPT ![r] = [status |-> 201, message |-> "download"]]
       /\ pc' = [pc EXCEPT ![r] = "done"]
  ELSE UNCHANGED <<res, pc>>

\* line 225: the output write stream opens (creates or truncates) the file;
\* without the directory the open fails with an "error" event nobody listens to
OutputOpen(r) ==
  /\ proc = "up"
  /\ outputWS[r] = "opening"
  /\ IF outputDir \in fsDirs
     THEN /\ outputWS' = [outputWS EXCEPT ![r] = "open"]
          /\ outFile' = [outFile EXCEPT ![type[r]] = File(<<>>)]
          /\ download(r, "open")
          /\ UNCHANGED <<proc, error, hashVars, manVars, sigVars, archive, flushed>>
     ELSE /\ uncaughtException(r, "ENOENT: no such file or directory, open")
          /\ UNCHANGED <<outFile, res>>
  /\ UNCHANGED <<envVars, fsDirs, tmpDirs, manifestJson, spawns, type, list, tempFolder>>

\* content with block written at position k of a file (own offset of a writer)
WriteAt(content, k, block) ==
  [i \in 1..(IF k > Len(content) THEN k ELSE Len(content)) |->
     IF i = k THEN block
     ELSE IF i <= Len(content) THEN content[i]
     ELSE [by |-> None, name |-> "<hole>", data |-> <<>>]]

\* line 227: the pipe moves the next block of the archive to the output file
OutputWrite(r) ==
  /\ proc = "up"
  /\ outputWS[r] = "open"
  /\ flushed[r] < Len(archive[r].out)
  /\ LET k == flushed[r] + 1
         b == archive[r].out[k]
     IN  outFile' = [outFile EXCEPT ![type[r]] =
           File(WriteAt(@.content, k, [by |-> r, name |-> b.name, data |-> b.data]))]
  /\ flushed' = [flushed EXCEPT ![r] = @ + 1]
  /\ UNCHANGED <<proc, pc, envVars, fsDirs, tmpDirs, manifestJson, spawns, reqVars, hashVars,
                 manVars, sigVars, archive, outputWS>>

\* lines 230-238: the archive ended and all of it is written: the output
\* stream closes and its "close" event sends the download
OutputClose(r) ==
  /\ proc = "up"
  /\ outputWS[r] = "open"
  /\ archive[r].finalized
  /\ flushed[r] = Blocks(archive[r])
  /\ outputWS' = [outputWS EXCEPT ![r] = "closed"]
  /\ download(r, "close")
  /\ UNCHANGED <<proc, envVars, fsVars, type, error, list, tempFolder, hashVars, manVars,
                 sigVars, archive, flushed>>

Next ==
  \E r \in Requests :
    \/ Get(r)
    \/ ReaddirCallback(r)
    \/ MkdtempCallback(r)
    \/ \E file \in FileNames : StreamData(r, file)
    \/ \E file \in FileNames : StreamError(r, file)
    \/ \E file \in FileNames : StreamEnd(r, file)
    \/ ManifestOpen(r)
    \/ ManifestWrite(r)
    \/ \E c \in CertFiles : AccessCallback(r, c)
    \/ SignerRead(r)
    \/ StdoutData(r)
    \/ StderrData(r)
    \/ StdoutEnd(r)
    \/ ArchiveProcess(r)
    \/ OutputOpen(r)
    \/ OutputWrite(r)
    \/ OutputClose(r)

Spec == Init /\ [][Next]_vars

\* ---------------------------------------------------------------- claims
\* states in which the process will do nothing more for the request
Ended == {"done", "thrown", "rejected", "killed"}

\* the entries of the model directory of type t that are not hidden
NonHidden(t) == {f \in models[t].entries : charAt0[f] # "."}

\* the enumeration of the model directory of type t fails
EnumerationFails(t) ==
  \/ ~models[t].exists
  \/ NonHidden(t) = {}
  \/ "pass.json" \notin NonHidden(t)

\* the blocks of a file but the central directory, and their names in order
EntriesOf(file) == SelectSeq(file.content, LAMBDA b : b.name # CentralDirectory)
EntryNames(file) == [i \in 1..Len(EntriesOf(file)) |-> EntriesOf(file)[i].name]

NoDuplicates(q) == \A i, j \in 1..Len(q) : q[i] = q[j] => i = j

\* a file that is a whole archive: its last block is the central directory
\* and lists the blocks before it, which one request wrote
CompleteArchive(file) ==
  /\ file.exists
  /\ Len(file.content) >= 1
  /\ LET n == Len(file.content)
     IN  /\ file.content[n].name = CentralDirectory
         /\ file.content[n].data = [i \in 1..(n - 1) |-> file.content[i].name]
         /\ \A i \in 1..n : file.content[i].by = file.content[n].by
         /\ \A i \in 1..(n - 1) : file.content[i].name # CentralDirectory

\* the request produced an archive: its download was sent
Produced(r) == res[r].status = 201

\* C1 (stated as claimed, for the runs whose signer signed what it read):
\* whenever a request has produced an archive, the bytes its signer read
\* from <scratch>/manifest.json are the bytes of the manifest entry of the
\* archive, the buffer generateManifest resolved with
C1_SignedBytesAreManifestEntry ==
  \A r \in Requests :
    (Produced(r) /\ openssl[r].input.exists
       /\ signature[r].value = Pkcs7(openssl[r].input.content)) =>
      /\ openssl[r].input.content = manifestBuffer[r]
      /\ \E i \in 1..Len(archive[r].out) :
           /\ archive[r].out[i].name = "manifest.json"
           /\ archive[r].out[i].data = openssl[r].input.content

\* C2 (stated as claimed): a produced archive has exactly one entry per
\* non-hidden source file not named "manifest" or "signature", one entry
\* named "manifest" and one named "signature", and no name twice
C2_EntriesWithManifestName ==
  \A r \in Requests :
    Produced(r) =>
      /\ NoDuplicates(EntryNames(outFile[type[r]]))
      /\ Range(EntryNames(outFile[type[r]])) =
           (NonHidden(type[r]) \ {"manifest", "signature"}) \cup {"manifest", "signature"}

\* C2 (amended): a produced archive has exactly one entry per non-hidden
\* source file not named "manifest.json" or "signature", one entry named
\* "manifest.json" and one named "signature", and no name twice
C2_EntriesWithManifestJsonName ==
  \A r \in Requests :
    Produced(r) =>
      /\ NoDuplicates(EntryNames(outFile[type[r]]))
      /\ Range(EntryNames(outFile[type[r]])) =
           (NonHidden(type[r]) \ {"manifest.json", "signature"})
             \cup {"manifest.json", "signature"}

\* an archive was produced from a directory that holds a hidden file and a
\* file with a reserved name
C2_Witness ==
  \E r \in Requests :
    /\ Produced(r)
    /\ \E f \in models[type[r]].entries : charAt0[f] = "."
    /\ \E f \in models[type[r]].entries : f \in {"manifest.json", "signature"}

\* C3 (stated as claimed): when a request has ended, the output file of its
\* type is a complete archive or the request has not created or changed it
C3_NoPartialArchive ==
  \A r \in Requests :
    pc[r] \in Ended =>
      \/ CompleteArchive(outFile[type[r]])
      \/ ~outFile[type[r]].exists

\* C4: once a read stream of a request emitted an error, the request has no
\* manifest file in its scratch directory, no signer was started for it, no
\* output stream or file was opened by it and it produced no archive
C4_ReadErrorStopsEverything ==
  \A r \in Requests :
    (error[r] = "Unable to compile manifest." \/ \E f \in FileNames : passFileStream[r][f] = "error") =>
      /\ manifestWS[r].state = None
      /\ tempFolder[r] # "" /\ ~manifestJson[tempFolder[r]].exists
      /\ tempFolder[r] \notin spawns
      /\ openssl[r].state = None
      /\ outputWS[r] = None
      /\ \A i \in 1..Len(outFile[type[r]].content) : outFile[type[r]].content[i].by # r
      /\ ~Produced(r)

\* a request of a directory with two or more content files ended because one
\* of its read streams failed
C4_Witness ==
  \E r \in Requests :
    /\ error[r] = "Unable to compile manifest."
    /\ pc[r] = "thrown"
    /\ Cardinality({f \in Range(list[r]) : f \notin {"manifest.json", "signature"}}) >= 2

\* C5: a signer process exists only when both access checks succeeded; when an
\* access check failed, generateManifestSignature is rejected and no signer
\* process was started
C5_SignerOnlyAfterBothChecks ==
  \A r \in Requests :
    /\ openssl[r].state # None => \A c \in CertFiles : access[r][c] = "ok"
    /\ (\E c \in CertFiles : access[r][c] = "err") =>
         /\ signature[r].state = "rejected"
         /\ openssl[r].state = None
         /\ tempFolder[r] \notin spawns

\* one access check succeeded, the other failed, the signature is rejected
C5_Witness ==
  \E r \in Requests :
    /\ \E c \in CertFiles : access[r][c] = "ok"
    /\ \E c \in CertFiles : access[r][c] = "err"
    /\ signature[r].state = "rejected"

\* the content files of a request: the names it opened a read stream for
ContentFiles(r) == {f \in FileNames : passFileStream[r][f] # None}

\* C6: once a request has built its manifest, the manifest has exactly one
\* member per content file, its value the SHA-1 (hex) of the concatenation of
\* the chunks the file's read stream delivered, and the manifest bytes are
\* the serialisation of these members
C6_DigestOfDeliveredChunks ==
  \A r \in Requests :
    manifestBuffer[r] # <<>> =>
      /\ {manifestRaw[r][i].key : i \in 1..Len(manifestRaw[r])} = ContentFiles(r)
      /\ NoDuplicates([i \in 1..Len(manifestRaw[r]) |-> manifestRaw[r][i].key])
      /\ \A i \in 1..Len(manifestRaw[r]) :
           manifestRaw[r][i].value = Sha1Hex(delivered[r][manifestRaw[r][i].key])
      /\ manifestBuffer[r] = JSONstringify(manifestRaw[r])

\* a manifest was built for two or more files, one of them three bytes long,
\* and the file listed last was the first to end
C6_Witness ==
  \E r \in Requests :
    /\ manifestBuffer[r] # <<>>
    /\ Len(manifestRaw[r]) >= 2
    /\ Len(delivered[r]["pass.json"]) >= 3
    /\ manifestRaw[r][1].key = "pass.json"

\* C7: a request whose enumeration fails never creates a scratch directory,
\* writes no manifest, starts no signer and opens or writes no output file
C7_EnumerationFailureHasNoEffect ==
  \A r \in Requests :
    (type[r] \in supportedTypesOfPass /\ EnumerationFails(type[r])) =>
      /\ tempFolder[r] = ""
      /\ r \in Clients /\ Clients = {r} => tmpDirs = {}
      /\ manifestWS[r].state = None
      /\ \A n \in TempNames : n \in spawns => \E q \in Requests \ {r} : tempFolder[q] = n
      /\ openssl[r].state = None
      /\ outputWS[r] = None
      /\ \A i \in 1..Len(outFile[type[r]].content) : outFile[type[r]].content[i].by # r
      /\ r \in Clients /\ Clients = {r} => outFile = [t \in Types |-> ENOENT]

\* a request ended on a directory without pass.json that holds other files
C7_Witness ==
  \E r \in Requests :
    /\ pc[r] \in Ended
    /\ models[type[r]].exists
    /\ NonHidden(type[r]) # {}
    /\ "pass.json" \notin NonHidden(type[r])

\* C8 (stated as claimed): a request whose enumeration failed has ended with
\* a client-error response sent
C8_EnumerationFailureAnswered ==
  \A r \in Requests :
    (pc[r] \in Ended /\ type[r] \in supportedTypesOfPass /\ EnumerationFails(type[r])) =>
      (res[r].status >= 400 /\ res[r].status < 500)

\* C9 (stated as claimed, as the outcome of a request that has ended): a
\* request that passed enumeration, got its scratch directory and ended has
\* had a response sent: the download or a failure
C9_FailureAnswered ==
  \A r \in Requests :
    (pc[r] \in {"done", "thrown", "rejected"} /\ list[r] # <<>> /\ tempFolder[r] # "") =>
      res[r].status # 0

\* C10 (stated as claimed): generateManifestSignature resolved only if the
\* signer wrote nothing to stderr, delivered yet or not
C10_StderrMeansRejected ==
  \A r \in Requests :
    signature[r].state = "resolved" => (~opensslError[r] /\ openssl[r].err = <<>>)

\* the filename-to-digest mapping of the manifest a request built
ManifestMapping(r) == {manifestRaw[r][i] : i \in 1..Len(manifestRaw[r])}

InitTwo ==
  /\ models = [t \in Types |-> IF t = "boarding" THEN Dir({"pass.json"}) ELSE NoDir]
  /\ disk \in {d \in DiskImages : Len(d["pass.json"]) = 2}
  /\ outputDir = OutputLiteral
  /\ signerModes = {"signed"}
  /\ fsDirs = {outputDir}
  /\ tmpDirs = {}
  /\ manifestJson = [n \in TempNames |-> ENOENT]
  /\ outFile = [t \in Types |-> ENOENT]
  /\ spawns = {}
  /\ proc = "up"
  /\ pc = [r \in Requests |-> "new"]
  /\ type = [r \in Requests |-> "boarding"]
  /\ res = [r \in Requests |-> NoResponse]
  /\ error = [r \in Requests |-> None]
  /\ list = [r \in Requests |-> <<>>]
  /\ tempFolder = [r \in Requests |-> ""]
  /\ FreshMemory

SpecTwo == InitTwo /\ [][Next]_vars

\* the bytes of a file or of an archive stream, whoever wrote them
Bytes(blocks) == [i \in 1..Len(blocks) |-> [name |-> blocks[i].name, data |-> blocks[i].data]]

\* C12 (stated as claimed, its last part): at the step that sends the
\* download of a request, whatever other request for the type is under way,
\* the output file holds the bytes of the complete archive of the request;
\* stated for the requests whose own archive stream was complete and
\* correctly signed
C12_SentArchiveIsComplete ==
  [][\A r \in Requests :
       ( /\ res[r].status = 0
         /\ res'[r].status = 201
         /\ signature'[r].value = Pkcs7(manifestBuffer'[r])
         /\ Len(archive'[r].out) = Len(archive'[r].queue) + 1 ) =>
         Bytes(outFile'[type'[r]].content) = Bytes(archive'[r].out)]_vars

\* the positions of the archive queue of a request that hold the appended
\* buffer of a name
AppendedAt(r, name) ==
  {i \in 1..Len(archive[r].queue) :
     archive[r].queue[i].name = name /\ archive[r].queue[i].from = "buffer"}

\* C13: the manifest is built only when the hash task of every content file
\* has called back; the manifest entry is appended after every content file
\* was staged; the signer is invoked only when the manifest builder has
\* returned; the signature entry is appended, after the manifest entry, only
\* when the signer's output has ended
C13_StageOrdering ==
  \A r \in Requests :
    /\ manifestBuffer[r] # <<>> =>
         /\ completed[r] = Len(list[r])
         /\ \A f \in ContentFiles(r) : passFileStream[r][f] = "ended"
    /\ \A i \in AppendedAt(r, "manifest.json") :
         /\ manifestBuffer[r] # <<>>
         /\ {archive[r].queue[j].name : j \in 1..(i - 1)} = ContentFiles(r)
         /\ \A j \in 1..(i - 1) : archive[r].queue[j].from = "file"
    /\ (\E c \in CertFiles : access[r][c] # None) \/ openssl[r].state # None =>
         manifestBuffer[r] # <<>>
    /\ \A i \in AppendedAt(r, "signature") :
         /\ openssl[r].state = "ended"
         /\ openssl[r].out = <<>>
         /\ AppendedAt(r, "manifest.json") = {i - 1}

\* the signature entry was appended to an archive of three content files
C13_Witness ==
  \E r \in Requests :
    /\ AppendedAt(r, "signature") # {}
    /\ Cardinality(ContentFiles(r)) = 3

\* ------------------------------------------- regenerating an archive
\* the complete archive an earlier request left for a type
OldArchive ==
  File(<<[by |-> "earlier", name |-> "pass.json", data |-> <<9>>],
         [by |-> "earlier", name |-> "manifest.json", data |-> <<9>>],
         [by |-> "earlier", name |-> "signature", data |-> <<9>>],
         [by |-> "earlier", name |-> CentralDirectory,
          data |-> <<"pass.json", "manifest.json", "signature">>]>>)

\* Init of a server whose output directory holds an archive of every
\* supported type from earlier requests
InitRegen ==
  /\ \E m \in {NoDir} \cup {Dir(s) : s \in {e \in SUBSET FileNames : Cardinality(e) <= MaxEntries}} :
        models = [t \in Types |-> IF t = "boarding" THEN m ELSE NoDir]
  /\ disk \in DiskImages
  /\ outputDir \in {OutputLiteral, "passes"}
  /\ signerModes = SignerModes
  /\ fsDirs = {outputDir}
  /\ tmpDirs = {}
  /\ manifestJson = [n \in TempNames |-> ENOENT]
  /\ outFile = [t \in Types |-> IF t \in supportedTypesOfPass THEN OldArchive ELSE ENOENT]
  /\ spawns = {}
  /\ InitRequests

SpecRegen == InitRegen /\ [][Next]_vars

\* C14 (stated as claimed): from the start of a request for a type that has
\* an archive until the output stream of the request has emitted "close",
\* the output file of the type holds the bytes of the archive that was there
\* before; stated for the requests whose signer, if it has ended, signed
\* the whole manifest
C14_OldArchiveIntactUntilClose ==
  \A r \in Requests :
    ( /\ type[r] \in supportedTypesOfPass
      /\ pc[r] \in InFlight \cup {"new"}
      /\ outputWS[r] # "closed"
      /\ signature[r].state = "resolved" => signature[r].value = Pkcs7(manifestBuffer[r]) ) =>
      outFile[type[r]] = OldArchive

\* C15: the download of a request is sent (status 201, the size of the file
\* read) only when its output stream has emitted "close": finalize() was
\* called, the archive produced its central directory and every block of it
\* was written to the output file
C15_ReadyOnlyAfterClose ==
  \A r \in Requests :
    Produced(r) =>
      /\ outputWS[r] = "closed"
      /\ archive[r].finalized
      /\ Len(archive[r].out) = Len(archive[r].queue) + 1
      /\ archive[r].out[Len(archive[r].out)].name = CentralDirectory
      /\ flushed[r] = Len(archive[r].out)

\* a download was sent for an archive of two content files or more
C15_Witness ==
  \E r \in Requests :
    /\ Produced(r)
    /\ pc[r] = "done"
    /\ flushed[r] >= 5

\* C16: generateManifestSignature is invoked (its access checks made, its
\* signer started) in no request whose generateManifest has not resolved
\* with the manifest, so in none whose generateManifest rejected; once
\* generateManifestSignature has rejected, no signature entry is appended,
\* finalize() is not called, the output stream is not opened, nothing of the
\* request is written to the output file and no download is sent
C16_FailureGating ==
  \A r \in Requests :
    /\ (\E c \in CertFiles : access[r][c] # None) \/ openssl[r].state # None =>
         /\ manifestBuffer[r] # <<>>
         /\ manifestWS[r].state # None
    /\ signature[r].state = "rejected" =>
         /\ AppendedAt(r, "signature") = {}
         /\ ~archive[r].finalized
         /\ outputWS[r] = None
         /\ flushed[r] = 0
         /\ \A i \in 1..Len(outFile[type[r]].content) : outFile[type[r]].content[i].by # r
         /\ ~Produced(r)

\* the signer ran, wrote to stderr, and generateManifestSignature rejected on
\* the end of its output
C16_Witness ==
  \E r \in Requests :
    /\ signature[r].state = "rejected"
    /\ openssl[r].state = "ended"
    /\ opensslError[r]
    /\ pc[r] = "rejected"

\* C17: concurrent requests have distinct scratch directories, each created
\* for its request; a manifest.json exists only in the scratch directory of
\* one request and holds nothing but (a prefix of) the manifest of that
\* request; a signer was started only on the scratch directory of its own
\* request and read only the manifest.json of that directory
C17_ScratchExclusive ==
  /\ \A r, q \in Requests :
       (r # q /\ tempFolder[r] # "" /\ tempFolder[q] # "") => tempFolder[r] # tempFolder[q]
  /\ \A r \in Requests : tempFolder[r] # "" => tempFolder[r] \in tmpDirs
  /\ \A n \in TempNames :
       (manifestJson[n].exists \/ n \in spawns) =>
         /\ Cardinality({r \in Requests : tempFolder[r] = n}) = 1
         /\ \A r \in Requests :
              (tempFolder[r] = n /\ manifestBuffer[r] # <<>>) =>
                manifestJson[n].content \in {<<>>, manifestBuffer[r]}
  /\ \A r \in Requests :
       openssl[r].state # None =>
         /\ tempFolder[r] \in spawns
         /\ openssl[r].input.content \in {<<>>, manifestBuffer[r]}
         /\ openssl[r].input.exists => manifestJson[tempFolder[r]].exists

\* two requests under way at once, each with a scratch directory whose
\* manifest.json was written and read by its signer
C17_Witness ==
  \A r \in Requests :
    /\ pc[r] \in InFlight
    /\ tempFolder[r] # ""
    /\ manifestJson[tempFolder[r]].content = manifestBuffer[r]
    /\ manifestBuffer[r] # <<>>
    /\ openssl[r].input = manifestJson[tempFolder[r]]

\* C18 (stated as claimed, as the outcome of a request that has ended): once
\* a request has sent its download, its signing over, the scratch directory
\* created for it and the manifest.json in it are removed; stated for the
\* requests whose signer signed the whole manifest
C18_ScratchRemovedAtEnd ==
  \A r \in Requests :
    (pc[r] = "done" /\ tempFolder[r] # "" /\ signature[r].value = Pkcs7(manifestBuffer[r])) =>
      /\ tempFolder[r] \notin tmpDirs
      /\ ~manifestJson[tempFolder[r]].exists

\* C19 (stated as claimed): when a request has created its output write
\* stream, the configured output directory exists, whatever its name;
\* stated for the requests whose signer signed the whole manifest
C19_OutputDirExistsAtOpen ==
  \A r \in Requests :
    (outputWS[r] # None /\ signature[r].value = Pkcs7(manifestBuffer[r])) =>
      outputDir \in fsDirs

\* ------------------------------------- a model file rewritten meanwhile
\* the files of the model directory are rewritten (a new version of the
\* pass model is put in place) while a request is under way
EditFile ==
  /\ \E r \in Requests : pc[r] \in InFlight
  /\ disk' \in DiskImages \ {disk}
  /\ UNCHANGED <<proc, pc, models, outputDir, signerModes, fsVars, reqVars, hashVars,
                 manVars, sigVars, zipVars>>

\* Init of a server whose model directory holds pass.json and icon.png and
\* whose output directory exists
InitEdit ==
  /\ models = [t \in Types |->
                 IF t = "boarding" THEN Dir({"pass.json", "icon.png"}) ELSE NoDir]
  /\ disk \in DiskImages
  /\ outputDir = OutputLiteral
  /\ signerModes = SignerModes
  /\ fsDirs = {outputDir}
  /\ tmpDirs = {}
  /\ manifestJson = [n \in TempNames |-> ENOENT]
  /\ outFile = [t \in Types |-> ENOENT]
  /\ spawns = {}
  /\ InitRequests

NextEdit == Next \/ EditFile

SpecEdit == InitEdit /\ [][NextEdit]_vars

\* C20 (stated as claimed): in a produced archive, for every content entry,
\* the digest the manifest records under the name of the entry is the SHA-1
\* of the bytes the archive stores for the entry; stated for the requests
\* whose signer signed the whole manifest
C20_DigestOfStoredBytes ==
  \A r \in Requests :
    (Produced(r) /\ signature[r].value = Pkcs7(manifestBuffer[r])) =>
      \A i \in 1..Len(archive[r].out) :
        archive[r].out[i].name \in ContentFiles(r) =>
          [key |-> archive[r].out[i].name, value |-> Sha1Hex(archive[r].out[i].data)]
            \in ManifestMapping(r)

====
